---- MODULE Spec2Model ----
(***************************************************************************)
(* Advisor Agent API (src/lambda/advisor_agent/app.py).                    *)
(*                                                                         *)
(* One Lambda process: RISK_THRESHOLD is read from the environment when    *)
(* the module is imported, then lambda_handler serves one event after the  *)
(* other.  An invocation either returns a response or ends in the Python   *)
(* exception raised by a coercion (int(), float()) or by payload.keys().   *)
(*                                                                         *)
(* Numbers.  JSON numbers and numeric strings are held in tenths (4.5 is   *)
(* 45), so that int() truncates and float() keeps the fraction.  Scores    *)
(* are held in ten-thousandths (0.35 is 3500); the response's risk_score   *)
(* is round(risk, 3), held in thousandths.  For the 64 combinations of     *)
(* partial scores the IEEE double sum compares with 0.75 and with 0.5, and *)
(* rounds to three decimals, exactly as the decimal sum does.              *)
(*                                                                         *)
(* Strings.  The em dash and the en dash of two recommendation strings are *)
(* written "-" here.                                                       *)
(***************************************************************************)
EXTENDS Integers, Sequences, FiniteSets, TLC

VARIABLES
  RISK_THRESHOLD, \* the module global, in ten-thousandths
  event,          \* the event of the latest invocation
  payload,        \* its parsed body
  scored,         \* what compute_risk returned or raised in it
  built,          \* what build_recommendations returned or raised in it
  called,         \* the last function the invocation entered
  out,            \* its response, or the exception it ended in
  last            \* the event and the outcome of the invocation before it

vars == <<RISK_THRESHOLD, event, payload, scored, built, called, out, last>>

(* ------------------------------ bounds -------------------------------- *)
MaxMissing == 4
GradeLo == 68
GradeHi == 86
MaxDays == 8
MaxSubmitted == 1
MaxEpoch == 1

(* --------------------------- JSON values ------------------------------ *)
\* A value of the parsed body: k is its JSON kind, v its magnitude.
Absent == [k |-> "absent", v |-> 0]
JNull == [k |-> "null", v |-> 0]
JInt(n) == [k |-> "int", v |-> n]
\* a JSON number with a fraction, in tenths
JReal(t) == [k |-> "real", v |-> t]
\* a JSON string holding an integer literal, such as "3"
JIntStr(n) == [k |-> "intstr", v |-> n]
\* a JSON string holding a decimal literal, such as "4.5", in tenths
JRealStr(t) == [k |-> "realstr", v |-> t]
\* a JSON string that is no number, such as "abc"
JText == [k |-> "text", v |-> 0]
\* the tokens Infinity and NaN, which json.loads accepts
JInf == [k |-> "inf", v |-> 0]
JNaN == [k |-> "nan", v |-> 0]
\* a JSON integer beyond the range of a double and of at most 4300 digits,
\* such as 10^400 (v = 1) or -10^400 (v = -1); json.loads reads it as a
\* Python int
JBig(sign) == [k |-> "bigint", v |-> sign]
\* an integer literal of more than 4300 digits, such as 10^5000: int() of
\* its text, and so json.loads of a body that holds it, raises ValueError;
\* as a Python int it is coerced like the one above
JHuge == [k |-> "hugeint", v |-> 1]
\* an opaque string (student_token, term, course_id)
JTok(n) == [k |-> "tok", v |-> n]

None == "<None>"

\* the keys the core reads
Signals == {"missing_14d", "avg_grade_pct", "days_inactive", "submitted_14d"}

(* ------------------------ Python coercions ---------------------------- *)
Trunc(t) == IF t >= 0 THEN t \div 10 ELSE -((-t) \div 10)

Raised(e) == [ok |-> FALSE, exc |-> e, k |-> "none", v |-> 0]
Value(kind, n) == [ok |-> TRUE, exc |-> None, k |-> kind, v |-> n]

Get_default1(p, key) == IF p[key].k = "absent" THEN JInt(1) ELSE p[key]

\* payload.get(key, 0)
Get(p, key) == IF p[key].k = "absent" THEN JInt(0) ELSE p[key]

\* int(x): an integer, or the exception int() raises
PyInt(x) ==
  CASE x.k = "int" -> Value("int", x.v)
    \* an int of any size is kept; 10^9 stands for it, beyond every ladder step
    [] x.k \in {"bigint", "hugeint"} -> Value("int", x.v * 1000000000)
    [] x.k = "real" -> Value("int", Trunc(x.v))
    [] x.k = "intstr" -> Value("int", x.v)
    [] x.k = "realstr" -> Raised("ValueError")
    [] x.k = "text" -> Raised("ValueError")
    [] x.k = "tok" -> Raised("ValueError")
    [] x.k = "nan" -> Raised("ValueError")
    [] x.k = "inf" -> Raised("OverflowError")
    [] x.k = "null" -> Raised("TypeError")

\* float(x): a finite float in tenths, inf, nan, or the exception; the
\* integers held as "int" are within the range of a double
PyFloat(x) ==
  CASE x.k = "int" -> Value("fin", 10 * x.v)
    \* "int too large to convert to float"
    [] x.k \in {"bigint", "hugeint"} -> Raised("OverflowError")
    [] x.k = "real" -> Value("fin", x.v)
    [] x.k = "intstr" -> Value("fin", 10 * x.v)
    [] x.k = "realstr" -> Value("fin", x.v)
    [] x.k = "text" -> Raised("ValueError")
    [] x.k = "tok" -> Raised("ValueError")
    [] x.k = "nan" -> Value("nan", 0)
    [] x.k = "inf" -> Value("inf", 0)
    [] x.k = "null" -> Raised("TypeError")

\* f >= n for a float f and an integer literal n (nan compares false)
FloatGE(f, n) == f.k = "inf" \/ (f.k = "fin" /\ f.v >= 10 * n)

(* ------------------------- threshold ladders -------------------------- *)
_days_inactive_to_score_heavy(days_inactive) ==
  IF FloatGE(days_inactive, 7) THEN <<4000, "Inactive 7+ days">>
  ELSE IF FloatGE(days_inactive, 4) THEN <<1800, "Inactive 4+ days">>
  ELSE IF FloatGE(days_inactive, 2) THEN <<800, "Inactive 2+ days">>
  ELSE <<0, None>>

_days_inactive_to_score(days_inactive) ==
  IF FloatGE(days_inactive, 7) THEN <<3000, "Inactive 7+ days">>
  ELSE IF FloatGE(days_inactive, 4) THEN <<1800, "Inactive 4+ days">>
  ELSE IF FloatGE(days_inactive, 2) THEN <<800, "Inactive 2+ days">>
  ELSE <<0, None>>

_missing_to_score_exact3(missing_14d) ==
  IF missing_14d = 3 THEN <<3500, "3+ missing assignments (14d)">>
  ELSE IF missing_14d = 2 THEN <<2500, "2 missing assignments (14d)">>
  ELSE IF missing_14d = 1 THEN <<1500, "1 missing assignment (14d)">>
  ELSE <<0, None>>

_missing_to_score(missing_14d) ==
  IF missing_14d >= 3 THEN <<3500, "3+ missing assignments (14d)">>
  ELSE IF missing_14d = 2 THEN <<2500, "2 missing assignments (14d)">>
  ELSE IF missing_14d = 1 THEN <<1500, "1 missing assignment (14d)">>
  ELSE <<0, None>>

_grade_to_score_inclusive(avg_grade_pct) ==
  IF avg_grade_pct <= 70 THEN <<3500, "Average grade < 70%">>
  ELSE IF avg_grade_pct <= 80 THEN <<2000, "Average grade < 80%">>
  ELSE IF avg_grade_pct <= 85 THEN <<1000, "Average grade < 85%">>
  ELSE <<0, None>>

_grade_to_score(avg_grade_pct) ==
  IF avg_grade_pct < 70 THEN <<3500, "Average grade < 70%">>
  ELSE IF avg_grade_pct < 80 THEN <<2000, "Average grade < 80%">>
  ELSE IF avg_grade_pct < 85 THEN <<1000, "Average grade < 85%">>
  ELSE <<0, None>>

Min(a, b) == IF a <= b THEN a ELSE b

AppendIf_front(fs, f) == IF f # None THEN <<f>> \o fs ELSE fs

\* "if f: factors.append(f)"
AppendIf(fs, f) == IF f # None THEN Append(fs, f) ELSE fs

Threw(e) == [raised |-> TRUE, exc |-> e, score |-> 0, factors |-> <<>>]

\* compute_risk with a factor list that outlives the call
compute_risk_shared(p) ==
  LET m == PyInt(Get(p, "missing_14d"))
      g == PyInt(Get(p, "avg_grade_pct"))
      d == PyFloat(Get(p, "days_inactive"))
  IN  IF ~m.ok THEN Threw(m.exc)
      ELSE IF ~g.ok THEN Threw(g.exc)
      ELSE IF ~d.ok THEN Threw(d.exc)
      ELSE LET sm == _missing_to_score(m.v)
               sg == _grade_to_score(g.v)
               sd == _days_inactive_to_score(d)
               score == 0 + sm[1] + sg[1] + sd[1]
               fs == AppendIf(AppendIf(AppendIf(last.out.factors, sm[2]), sg[2]), sd[2])
           IN  [raised |-> FALSE, exc |-> None,
                score |-> Min(score, 10000), factors |-> fs]

compute_risk(p) ==
  LET m == PyInt(Get(p, "missing_14d"))
      g == PyInt(Get(p, "avg_grade_pct"))
      d == PyFloat(Get(p, "days_inactive"))
  IN  IF ~m.ok THEN Threw(m.exc)
      ELSE IF ~g.ok THEN Threw(g.exc)
      ELSE IF ~d.ok THEN Threw(d.exc)
      ELSE LET sm == _missing_to_score(m.v)
               sg == _grade_to_score(g.v)
               sd == _days_inactive_to_score(d)
               score == 0 + sm[1] + sg[1] + sd[1]
               fs == AppendIf(AppendIf(AppendIf(<<>>, sm[2]), sg[2]), sd[2])
           IN  [raised |-> FALSE, exc |-> None,
                score |-> Min(score, 10000), factors |-> fs]

(* ------------------------- recommendations ---------------------------- *)
RecMissingPlan ==
  "Make a 48-hour plan to complete the missing assignments (start with the highest-weight items)."
RecMissingEmail ==
  "Email the instructor to confirm deadlines and ask what to prioritize first."
RecGradePractice ==
  "Block 45-60 minutes daily for targeted practice on weak topics (quiz + review mistakes)."
RecGradeTutoring ==
  "Attend office hours or tutoring this week with 3 specific questions prepared."
RecMomentum ==
  "Log in today and complete one small task (discussion post, quiz attempt, or reading notes) to restart momentum."
RecWeeklySchedule ==
  "Create a weekly schedule: 3 study sessions + 1 catch-up session, and track completion."
RecActiveRecall ==
  "Use active recall: summarize each module in 5 bullets, then self-test without notes."
RecSteadyPace ==
  "Keep current pace-set one weekly checkpoint to ensure no assignments are missed."
RecEasiest ==
  "Start with the easiest assignment to build confidence, then move to the next due item."

\* ', '.join(fs)
RECURSIVE Join(_)
Join(fs) ==
  IF Len(fs) = 0 THEN ""
  ELSE IF Len(fs) = 1 THEN fs[1]
  ELSE fs[1] \o ", " \o Join(Tail(fs))

\* f"Why this plan: {', '.join(factors)}."
WhyThisPlan(fs) == "Why this plan: " \o Join(fs) \o "."

ThrewRecs(e) == [raised |-> TRUE, exc |-> e, recs |-> <<>>]

\* build_recommendations with the engagement item before the study plan
build_recommendations_swapped(p, risk_score, fs) ==
  LET m == PyInt(Get(p, "missing_14d"))
      g == PyInt(Get(p, "avg_grade_pct"))
      d == PyFloat(Get(p, "days_inactive"))
      s == PyInt(Get(p, "submitted_14d"))
  IN  IF ~m.ok THEN ThrewRecs(m.exc)
      ELSE IF ~g.ok THEN ThrewRecs(g.exc)
      ELSE IF ~d.ok THEN ThrewRecs(d.exc)
      ELSE IF ~s.ok THEN ThrewRecs(s.exc)
      ELSE LET r1 == IF m.v > 0 THEN <<RecMissingPlan, RecMissingEmail>> ELSE <<>>
               r2 == IF g.v < 80 THEN <<RecGradePractice, RecGradeTutoring>> ELSE <<>>
               r3 == IF FloatGE(d, 4) THEN <<RecMomentum>> ELSE <<>>
               r4 == IF risk_score >= RISK_THRESHOLD
                     THEN <<RecWeeklySchedule, RecActiveRecall>>
                     ELSE <<RecSteadyPace>>
               r5 == IF s.v = 0 THEN <<RecEasiest>> ELSE <<>>
               r6 == IF Len(fs) > 0 THEN <<WhyThisPlan(fs)>> ELSE <<>>
           IN  [raised |-> FALSE, exc |-> None,
                recs |-> r1 \o r2 \o r3 \o r5 \o r4 \o r6]

build_recommendations(p, risk_score, fs) ==
  LET m == PyInt(Get(p, "missing_14d"))
      g == PyInt(Get(p, "avg_grade_pct"))
      d == PyFloat(Get(p, "days_inactive"))
      s == PyInt(Get(p, "submitted_14d"))
  IN  IF ~m.ok THEN ThrewRecs(m.exc)
      ELSE IF ~g.ok THEN ThrewRecs(g.exc)
      ELSE IF ~d.ok THEN ThrewRecs(d.exc)
      ELSE IF ~s.ok THEN ThrewRecs(s.exc)
      ELSE LET r1 == IF m.v > 0 THEN <<RecMissingPlan, RecMissingEmail>> ELSE <<>>
               r2 == IF g.v < 80 THEN <<RecGradePractice, RecGradeTutoring>> ELSE <<>>
               r3 == IF FloatGE(d, 4) THEN <<RecMomentum>> ELSE <<>>
               r4 == IF risk_score >= RISK_THRESHOLD
                     THEN <<RecWeeklySchedule, RecActiveRecall>>
                     ELSE <<RecSteadyPace>>
               r5 == IF s.v = 0 THEN <<RecEasiest>> ELSE <<>>
               r6 == IF Len(fs) > 0 THEN <<WhyThisPlan(fs)>> ELSE <<>>
           IN  [raised |-> FALSE, exc |-> None,
                recs |-> r1 \o r2 \o r3 \o r4 \o r5 \o r6]

(* ------------------------------ adapter ------------------------------- *)
\* The empty dict, which _safe_json returns for a body that is no JSON.
EmptyPayload ==
  [missing_14d |-> Absent, avg_grade_pct |-> Absent, days_inactive |-> Absent,
   submitted_14d |-> Absent, student_token |-> Absent, term |-> Absent,
   course_id |-> Absent]

\* What json.loads returned: a dict, or another JSON value (a list, a number),
\* which has no keys().
Dict(p) == [isdict |-> TRUE, d |-> p]
NotADict == [isdict |-> FALSE, d |-> EmptyPayload]

\* json.loads raises on the text of object p: it holds an integer literal
\* longer than the limit of the int conversion
LoadsRaises(p) == \E key \in DOMAIN p : p[key].k = "hugeint"

\* _safe_json(event.get("body", "")): b.kind is what the body text holds;
\* whatever json.loads raises is answered by the empty dict
_safe_json(b) ==
  CASE b.kind = "object" -> IF LoadsRaises(b.obj) THEN Dict(EmptyPayload) ELSE Dict(b.obj)
    [] b.kind = "malformed" -> Dict(EmptyPayload)
    [] b.kind = "empty" -> Dict(EmptyPayload)
    [] b.kind = "nonobject" -> NotADict

\* round(risk, 3), in thousandths
Round3(x) == (x + 5) \div 10

NoOut ==
  [status |-> "none", exc |-> None, statusCode |-> 0, ok |-> FALSE,
   risk_score |-> -1, risk_level |-> None, factors |-> <<>>,
   recommendations |-> <<>>, generated_at_epoch |-> -1]

\* "HIGH" if risk >= RISK_THRESHOLD else "LOW"
RiskLevel_strict(r) == IF r > RISK_THRESHOLD THEN "HIGH" ELSE "LOW"

RiskLevel(r) == IF r >= RISK_THRESHOLD THEN "HIGH" ELSE "LOW"

\* response(status, body), the body before json.dumps
response(status, body) == [body EXCEPT !.status = "returned", !.statusCode = status]

HandlerRaised(e) == [NoOut EXCEPT !.status = "raised", !.exc = e]

\* What lambda_handler leaves behind for event e at clock reading t:
\* the parsed payload, the scorer's and the builder's results, and the
\* response or the exception.
lambda_handler(e, t) ==
  IF e.method = "OPTIONS"
  THEN [payload |-> EmptyPayload, cr |-> Threw(None), br |-> ThrewRecs(None),
        called |-> "preflight",
        out |-> response(200, [NoOut EXCEPT !.ok = TRUE])]
  ELSE LET parsed == _safe_json(e.body)
           p == parsed.d IN
    IF ~parsed.isdict
    THEN [payload |-> EmptyPayload, cr |-> Threw(None), br |-> ThrewRecs(None),
          called |-> "parse", out |-> HandlerRaised("AttributeError")]
    ELSE LET cr == compute_risk(p) IN
      IF cr.raised
      THEN [payload |-> p, cr |-> cr, br |-> ThrewRecs(None),
            called |-> "compute_risk", out |-> HandlerRaised(cr.exc)]
      ELSE LET br == build_recommendations(p, cr.score, cr.factors) IN
        IF br.raised
        THEN [payload |-> p, cr |-> cr, br |-> br,
              called |-> "build_recommendations", out |-> HandlerRaised(br.exc)]
        ELSE [payload |-> p, cr |-> cr, br |-> br,
              called |-> "build_recommendations",
              out |-> response(200,
                [NoOut EXCEPT !.ok = TRUE,
                   !.risk_score = Round3(cr.score),
                   !.risk_level = RiskLevel(cr.score),
                   !.factors = cr.factors,
                   !.recommendations = br.recs,
                   !.generated_at_epoch = t])]

(* ------------------------------ inputs -------------------------------- *)
RISK_THRESHOLD_DEFAULT == 7500

\* os.getenv("RISK_THRESHOLD", "0.75"): the default, or 0.5 set by the operator
Thresholds == {RISK_THRESHOLD_DEFAULT, 5000}

Clock == 0 .. MaxEpoch

MissingValues ==
  {Absent, JNull, JText, JReal(25), JIntStr(3), JBig(1)} \cup {JInt(n) : n \in -1 .. MaxMissing}

GradeValues ==
  {Absent, JNull, JText, JReal(799)}
    \cup {JInt(n) : n \in {-1, 0, 60, 100} \cup (GradeLo .. GradeHi)}

DaysValues ==
  {Absent, JNull, JText, JInf, JNaN, JReal(39), JReal(69), JRealStr(45), JBig(1)}
    \cup {JInt(n) : n \in -1 .. MaxDays}

SubmittedValues ==
  {Absent, JNull, JText, JInt(3)} \cup {JInt(n) : n \in 0 .. MaxSubmitted}

Payloads ==
  [missing_14d : MissingValues, avg_grade_pct : GradeValues,
   days_inactive : DaysValues, submitted_14d : SubmittedValues,
   student_token : {JTok(1)}, term : {JTok(2)}, course_id : {JTok(3)}]

Object(p) == [kind |-> "object", obj |-> p]
NoObject(kind) == [kind |-> kind, obj |-> EmptyPayload]

Post(b) == [method |-> "POST", body |-> b]
Options(b) == [method |-> "OPTIONS", body |-> b]

\* Bodies that hold an integer literal of more than 4300 digits.
HugePayloads ==
  LET base == [missing_14d |-> JInt(1), avg_grade_pct |-> JInt(90),
               days_inactive |-> JInt(0), submitted_14d |-> JInt(2),
               student_token |-> JTok(1), term |-> JTok(2), course_id |-> JTok(3)]
  IN  {[base EXCEPT ![k] = JHuge] : k \in Signals}

Events ==
  {Post(Object(p)) : p \in Payloads \cup HugePayloads}
    \cup {Post(NoObject(k)) : k \in {"malformed", "empty", "nonobject"}}
    \cup {Options(NoObject("empty")), Options(Object(EmptyPayload))}

\* The consecutive invocations of one warm process: few signal values,
\* every combination of the keys that are no signals.
PairPayloads ==
  [missing_14d : {Absent, JInt(3), JText}, avg_grade_pct : {JInt(60), JInt(72)},
   days_inactive : {JInt(8)}, submitted_14d : {Absent, JInt(2)},
   student_token : {Absent, JTok(1), JTok(4)}, term : {Absent, JTok(2)},
   course_id : {Absent, JTok(3)}]

PairEvents ==
  {Post(Object(p)) : p \in PairPayloads}
    \cup {Post(Object([EmptyPayload EXCEPT !.days_inactive = JHuge, !.student_token = JTok(4)]))}
    \cup {Post(Object([EmptyPayload EXCEPT !.student_token = JTok(1)])),
          Post(NoObject("malformed")), Options(NoObject("empty"))}

NoEvent == [method |-> "none", body |-> NoObject("empty")]
NoLast == [event |-> NoEvent, out |-> NoOut]

(* ---------------------------- state machine --------------------------- *)
NotCalled ==
  /\ payload = EmptyPayload
  /\ scored = Threw(None)
  /\ built = ThrewRecs(None)
  /\ called = "pending"
  /\ out = NoOut

\* A fresh process with its first event waiting.
Init ==
  /\ RISK_THRESHOLD \in Thresholds
  /\ event \in Events
  /\ NotCalled
  /\ last = NoLast

InitPair ==
  /\ RISK_THRESHOLD \in Thresholds
  /\ event \in PairEvents
  /\ NotCalled
  /\ last = NoLast

\* One invocation of lambda_handler on the waiting event, from the event to
\* the response or the exception; t is what time.time() reads.
Invoke(t) ==
  LET h == lambda_handler(event, t) IN
  /\ called = "pending"
  /\ payload' = h.payload
  /\ scored' = h.cr
  /\ built' = h.br
  /\ called' = h.called
  /\ out' = h.out
  /\ UNCHANGED <<RISK_THRESHOLD, event, last>>

\* The second event of the process arrives; the first invocation is kept
\* beside it.
Arrive(e) ==
  /\ called # "pending"
  /\ last.event = NoEvent
  /\ last' = [event |-> event, out |-> out]
  /\ event' = e
  /\ payload' = EmptyPayload
  /\ scored' = Threw(None)
  /\ built' = ThrewRecs(None)
  /\ called' = "pending"
  /\ out' = NoOut
  /\ UNCHANGED RISK_THRESHOLD

Next == \E t \in Clock : Invoke(t)

Spec == Init /\ [][Next]_vars

NextPair ==
  \/ \E t \in Clock : Invoke(t)
  \/ \E e \in PairEvents : Arrive(e)

SpecPair == InitPair /\ [][NextPair]_vars

(* ------------------------- reading the state -------------------------- *)
\* compute_risk was entered in the invocation
ScorerCalled == called \in {"compute_risk", "build_recommendations"}
\* compute_risk returned
ScorerReturned == ScorerCalled /\ ~scored.raised
\* build_recommendations was entered and returned
BuilderReturned == called = "build_recommendations" /\ ~built.raised
\* lambda_handler returned the response to a request that is no preflight
Responded == called = "build_recommendations" /\ out.status = "returned"

AllSignalsAbsent == \A k \in Signals : payload[k] = Absent

InSeq(x, q) == \E i \in 1 .. Len(q) : q[i] = x

(* ------------------------------- C1 ----------------------------------- *)
\* C1 as stated: for the empty signal set (every signal key absent, as for
\* a malformed body) compute_risk returns 0.0 and no factors, and
\* build_recommendations returns the steady-pace string alone.
C1_EmptyIsZeroRisk ==
  (ScorerCalled /\ AllSignalsAbsent) =>
    /\ ScorerReturned /\ scored.score = 0 /\ scored.factors = <<>>
    /\ BuilderReturned /\ built.recs = <<RecSteadyPace>>

\* C1, amended: for the empty signal set every absent signal reads as 0, so
\* the grade 0 falls in the band below 70 and submitted_14d = 0 triggers the
\* start-with-easiest item: compute_risk returns 0.35 with the one factor
\* "Average grade < 70%", and (with a threshold above 0.35)
\* build_recommendations returns the grade-practice pair, the steady-pace
\* string, the start-with-easiest string and the 'Why this plan' line.
C1_EmptyIsGradeZero ==
  (ScorerCalled /\ AllSignalsAbsent /\ RISK_THRESHOLD > 3500) =>
    /\ ScorerReturned /\ scored.score = 3500
    /\ scored.factors = <<"Average grade < 70%">>
    /\ BuilderReturned
    /\ built.recs = <<RecGradePractice, RecGradeTutoring, RecSteadyPace, RecEasiest,
                      "Why this plan: Average grade < 70%.">>
    /\ out.status = "returned" /\ out.risk_score = 350 /\ out.risk_level = "LOW"

C1_Witness ==
  /\ event.method = "POST" /\ event.body.kind = "malformed"
  /\ AllSignalsAbsent /\ Responded /\ Len(built.recs) = 5
  /\ RISK_THRESHOLD = RISK_THRESHOLD_DEFAULT

(* ------------------------------- C2 ----------------------------------- *)
\* The payload with every signal that int() or float() refuses replaced by
\* its default.
Coercible(k, x) == IF k = "days_inactive" THEN PyFloat(x).ok ELSE PyInt(x).ok
Defaulted(p) ==
  [k \in DOMAIN p |->
     IF k \in Signals /\ ~Coercible(k, Get(p, k)) THEN Absent ELSE p[k]]

\* C2: the core never ends in an error: whatever the payload holds for the
\* four signals (absent, null, a string that is no number), compute_risk
\* and build_recommendations return, with the result of the payload in
\* which such a signal has its default 0.
C2_CoreNeverRaises ==
  ScorerCalled =>
    /\ ScorerReturned
    /\ BuilderReturned
    /\ scored = compute_risk(Defaulted(payload))
    /\ built = build_recommendations(Defaulted(payload), scored.score, scored.factors)

(* ------------------------------- C3 ----------------------------------- *)
\* JSON numbers: integers of any size for the two counts read by int(), any
\* number (negative, fractional, beyond the range of a double, Infinity, NaN)
\* for days_inactive.
NumericSignals ==
  /\ payload.missing_14d.k \in {"int", "bigint"}
  /\ payload.avg_grade_pct.k = "int"
  /\ payload.days_inactive.k \in {"int", "bigint", "real", "inf", "nan"}

\* C3: for every signal set with numeric values (negative and very large
\* ones included) compute_risk returns a score in [0, 1].
C3_ScoreInUnitInterval ==
  (ScorerCalled /\ NumericSignals) =>
    ScorerReturned /\ scored.score >= 0 /\ scored.score <= 10000

(* ------------------------------- C4 ----------------------------------- *)
\* The partial scores of the three ladders, from the coerced signals.
Coerced ==
  [missing_14d |-> PyInt(Get(payload, "missing_14d")),
   avg_grade_pct |-> PyInt(Get(payload, "avg_grade_pct")),
   days_inactive |-> PyFloat(Get(payload, "days_inactive")),
   submitted_14d |-> PyInt(Get(payload, "submitted_14d"))]

MissingPartial ==
  LET n == Coerced.missing_14d.v IN
  CASE n >= 3 -> <<3500, <<"3+ missing assignments (14d)">> >>
    [] n = 2 -> <<2500, <<"2 missing assignments (14d)">> >>
    [] n = 1 -> <<1500, <<"1 missing assignment (14d)">> >>
    [] OTHER -> <<0, <<>> >>

GradePartial ==
  LET g == Coerced.avg_grade_pct.v IN
  CASE g <= 69 -> <<3500, <<"Average grade < 70%">> >>
    [] g \in 70 .. 79 -> <<2000, <<"Average grade < 80%">> >>
    [] g \in 80 .. 84 -> <<1000, <<"Average grade < 85%">> >>
    [] OTHER -> <<0, <<>> >>

DaysPartial ==
  LET d == Coerced.days_inactive IN
  CASE d.k = "inf" \/ (d.k = "fin" /\ d.v >= 70) -> <<3000, <<"Inactive 7+ days">> >>
    [] d.k = "fin" /\ d.v >= 40 /\ d.v < 70 -> <<1800, <<"Inactive 4+ days">> >>
    [] d.k = "fin" /\ d.v >= 20 /\ d.v < 40 -> <<800, <<"Inactive 2+ days">> >>
    [] OTHER -> <<0, <<>> >>

ScenarioA ==
  /\ payload.missing_14d = JInt(2) /\ payload.avg_grade_pct = JInt(72)
  /\ payload.submitted_14d = JInt(3) /\ payload.days_inactive = JInt(5)

\* C4: compute_risk returns the sum of the three partial scores capped at
\* 1.0, and the triggered factors in the order missing, grade, inactivity,
\* nothing for an untriggered signal; scenario A gives the three factors
\* named, the score 0.63 and, with the default threshold, the level LOW.
C4_SumAndFactorOrder ==
  ScorerReturned =>
    /\ scored.score = Min(MissingPartial[1] + GradePartial[1] + DaysPartial[1], 10000)
    /\ scored.factors = MissingPartial[2] \o GradePartial[2] \o DaysPartial[2]
    /\ ScenarioA =>
         /\ scored.factors = <<"2 missing assignments (14d)", "Average grade < 80%",
                               "Inactive 4+ days">>
         /\ scored.score = 6300
         /\ Responded /\ out.risk_score = 630
         /\ RISK_THRESHOLD = RISK_THRESHOLD_DEFAULT => out.risk_level = "LOW"

C4_Witness ==
  /\ ScenarioA /\ Responded /\ out.risk_level = "LOW"
  /\ Len(scored.factors) = 3

(* ------------------------------- C5 ----------------------------------- *)
GradeFactors == {"Average grade < 70%", "Average grade < 80%", "Average grade < 85%"}

GradeFactorsEmitted == {scored.factors[i] : i \in 1 .. Len(scored.factors)} \cap GradeFactors

GradeEntries == {i \in 1 .. Len(scored.factors) : scored.factors[i] \in GradeFactors}

\* C5: the grade ladder is first-match-only with strict bounds: a grade
\* below 70 gives 0.35 and only "Average grade < 70%", 70..79 gives 0.20
\* and only "< 80%", 80..84 gives 0.10 and only "< 85%", 85 and above gives
\* 0.0 and no grade factor; never more than one grade factor.
C5_GradeLadderFirstMatch ==
  (ScorerReturned /\ payload.avg_grade_pct.k = "int") =>
    LET g == payload.avg_grade_pct.v
        r == _grade_to_score(g)
    IN  /\ Cardinality(GradeEntries) <= 1
        /\ g < 70 => r[1] = 3500 /\ GradeFactorsEmitted = {"Average grade < 70%"}
        /\ (g >= 70 /\ g <= 79) => r[1] = 2000 /\ GradeFactorsEmitted = {"Average grade < 80%"}
        /\ (g >= 80 /\ g <= 84) => r[1] = 1000 /\ GradeFactorsEmitted = {"Average grade < 85%"}
        /\ g >= 85 => r[1] = 0 /\ r[2] = None /\ GradeFactorsEmitted = {}

C5_Witness ==
  /\ ScorerReturned /\ payload.avg_grade_pct = JInt(80)
  /\ GradeFactorsEmitted = {"Average grade < 85%"}

(* ------------------------------- C6 ----------------------------------- *)
\* A JSON number as a float in tenths; Infinity above every finite one.
IsNumber(x) == x.k \in {"int", "real"}
Tenths(x) == IF x.k = "int" THEN 10 * x.v ELSE x.v

\* b is a more severe value of signal k than a
MoreSevere(k, a, b) ==
  CASE k = "missing_14d" ->
         /\ a.k \in {"int", "bigint"} /\ b.k \in {"int", "bigint"}
         /\ PyInt(b).v > PyInt(a).v
    [] k = "avg_grade_pct" -> a.k = "int" /\ b.k = "int" /\ b.v < a.v
    [] k = "days_inactive" ->
         /\ IsNumber(a)
         /\ \/ b.k = "inf"
            \/ b = JBig(1)
            \/ IsNumber(b) /\ Tenths(b) > Tenths(a)

ValuesOf(k) ==
  CASE k = "missing_14d" -> MissingValues
    [] k = "avg_grade_pct" -> GradeValues
    [] k = "days_inactive" -> DaysValues

\* The signal sets that differ from the payload in signal k alone, and are
\* more severe there.
Worsened(k) ==
  {[payload EXCEPT ![k] = b] : b \in {x \in ValuesOf(k) : MoreSevere(k, payload[k], x)}}

\* C6: raising the severity of one signal alone (more missing assignments,
\* more inactive days, a lower grade) never lowers the risk score: the more
\* severe signal set is scored at least as high, and it is scored unless
\* its days_inactive is an integer that float() cannot hold.
C6_LadderMonotone ==
  ScorerReturned =>
    \A k \in {"missing_14d", "avg_grade_pct", "days_inactive"} :
      \A q \in Worsened(k) :
        LET r == compute_risk(q) IN
          /\ r.raised => q.days_inactive = JBig(1)
          /\ ~r.raised => r.score >= scored.score

C6_Witness ==
  /\ ScorerReturned /\ payload.missing_14d = JInt(3) /\ scored.score = 3500
  /\ \E q \in Worsened("missing_14d") : q.missing_14d = JBig(1) /\ compute_risk(q).score = 3500
  /\ \E q \in Worsened("avg_grade_pct") : compute_risk(q).score > scored.score
  /\ \E q \in Worsened("days_inactive") : compute_risk(q).score > scored.score

(* ------------------------------- C7 ----------------------------------- *)
\* The place of a recommendation in the fixed order; the synthesized
\* summary line is the one string that is none of the fixed ones.
Rank(x) ==
  CASE x = RecMissingPlan -> 1
    [] x = RecMissingEmail -> 2
    [] x = RecGradePractice -> 3
    [] x = RecGradeTutoring -> 4
    [] x = RecMomentum -> 5
    [] x = RecWeeklySchedule -> 6
    [] x = RecActiveRecall -> 7
    [] x = RecSteadyPace -> 8
    [] x = RecEasiest -> 9
    [] OTHER -> 10

ScenarioB ==
  /\ payload.missing_14d = JInt(3) /\ payload.avg_grade_pct = JInt(60)
  /\ payload.days_inactive = JInt(8) /\ payload.submitted_14d = JInt(0)

ScenarioBRecs ==
  <<RecMissingPlan, RecMissingEmail, RecGradePractice, RecGradeTutoring, RecMomentum,
    RecWeeklySchedule, RecActiveRecall, RecEasiest,
    "Why this plan: 3+ missing assignments (14d), Average grade < 70%, Inactive 7+ days.">>

\* C7: the recommendations are a subsequence of the fixed order (nothing
\* twice, nothing out of order): the missing pair iff missing_14d > 0, the
\* grade pair iff avg_grade_pct < 80, the momentum item iff days_inactive
\* >= 4, the threshold branch, the easiest item iff submitted_14d = 0, and
\* the summary of the factors as the last element iff there is a factor;
\* scenario B has all six groups, with the weekly-schedule pair.
C7_FixedOrder ==
  BuilderReturned =>
    LET q == built.recs
        has(x) == InSeq(x, q)
        c == Coerced
    IN  /\ \A i, j \in 1 .. Len(q) : i < j => Rank(q[i]) < Rank(q[j])
        /\ has(RecMissingPlan) <=> c.missing_14d.v > 0
        /\ has(RecMissingEmail) <=> c.missing_14d.v > 0
        /\ has(RecGradePractice) <=> c.avg_grade_pct.v < 80
        /\ has(RecGradeTutoring) <=> c.avg_grade_pct.v < 80
        /\ has(RecMomentum) <=>
             (c.days_inactive.k = "inf" \/ (c.days_inactive.k = "fin" /\ c.days_inactive.v >= 40))
        /\ has(RecWeeklySchedule) <=> has(RecActiveRecall)
        /\ has(RecWeeklySchedule) <=> ~has(RecSteadyPace)
        /\ has(RecEasiest) <=> c.submitted_14d.v = 0
        /\ Len(q) > 0
        /\ (Rank(q[Len(q)]) = 10) <=> (scored.factors # <<>>)
        /\ Rank(q[Len(q)]) = 10 =>
             q[Len(q)] = "Why this plan: " \o Join(scored.factors) \o "."
        /\ ScenarioB => q = ScenarioBRecs

C7_Witness == ScenarioB /\ Responded /\ Len(built.recs) = 9 /\ out.risk_level = "HIGH"

(* ------------------------------- C8 ----------------------------------- *)
\* C8: in every response to a request that is no preflight exactly one
\* threshold branch is present and agrees with risk_level: HIGH iff the
\* unrounded score is at least RISK_THRESHOLD iff the weekly-schedule and
\* active-recall strings are both present and the steady-pace string is
\* absent; otherwise LOW with the steady-pace string alone.
C8_BranchAgreesWithLevel ==
  Responded =>
    LET q == out.recommendations
        high == InSeq(RecWeeklySchedule, q) /\ InSeq(RecActiveRecall, q)
                  /\ ~InSeq(RecSteadyPace, q)
        low == InSeq(RecSteadyPace, q) /\ ~InSeq(RecWeeklySchedule, q)
                  /\ ~InSeq(RecActiveRecall, q)
    IN  /\ out.risk_level \in {"HIGH", "LOW"}
        /\ (out.risk_level = "HIGH") <=> (scored.score >= RISK_THRESHOLD)
        /\ (out.risk_level = "HIGH") <=> high
        /\ (out.risk_level = "LOW") <=> low

\* a score exactly at the threshold
C8_Witness ==
  /\ Responded /\ scored.score = RISK_THRESHOLD /\ out.risk_level = "HIGH"
  /\ InSeq(RecWeeklySchedule, out.recommendations)

(* ------------------------------- C9 ----------------------------------- *)
SignalsOf(e) == [k \in Signals |-> _safe_json(e.body).d[k]]

\* two invocations made, neither a preflight, both bodies JSON objects or
\* replaced by the empty dict
TwoRequests ==
  /\ called # "pending" /\ last.event.method = "POST" /\ event.method = "POST"
  /\ _safe_json(last.event.body).isdict /\ _safe_json(event.body).isdict

\* C9: two requests with the same four signals get the same risk_score,
\* risk_level, factors and recommendations (or end in the same exception),
\* whatever their student_token, term and course_id; a repeated request
\* gives the same result apart from generated_at_epoch.
C9_SignalsOnly ==
  (TwoRequests /\ SignalsOf(last.event) = SignalsOf(event)) =>
    [out EXCEPT !.generated_at_epoch = 0] = [last.out EXCEPT !.generated_at_epoch = 0]

C9_Witness ==
  /\ TwoRequests /\ SignalsOf(last.event) = SignalsOf(event)
  /\ last.event.body.obj.student_token # event.body.obj.student_token
  /\ last.event.body.obj.term # event.body.obj.term
  /\ last.event.body.obj.course_id # event.body.obj.course_id
  /\ out.status = "returned" /\ out.factors # <<>>
  /\ out.generated_at_epoch # last.out.generated_at_epoch

(* ------------------------------- C10 ---------------------------------- *)
ZeroBand ==
  \/ Coerced.missing_14d.v <= 0
  \/ Coerced.avg_grade_pct.v >= 85
  \/ (Coerced.days_inactive.k = "fin" /\ Coerced.days_inactive.v < 20)

\* C10: with the default threshold 0.75 no two signals alone give HIGH: a
\* HIGH response has exactly three factors, and a response with a signal in
\* its zero band (missing_14d <= 0, avg_grade_pct >= 85, days_inactive < 2)
\* is LOW.
C10_HighNeedsThreeSignals ==
  (Responded /\ RISK_THRESHOLD = RISK_THRESHOLD_DEFAULT) =>
    /\ out.risk_level = "HIGH" => Len(out.factors) = 3
    /\ ZeroBand => out.risk_level = "LOW"

\* the two worst bands with the third signal in its zero band
C10_Witness ==
  /\ Responded /\ RISK_THRESHOLD = RISK_THRESHOLD_DEFAULT
  /\ scored.score = 7000 /\ ZeroBand /\ out.risk_level = "LOW"
  /\ Len(out.factors) = 2

====
